---- MODULE Spec2Model ----
(***************************************************************************)
(* TrackMe backend: the per-user tracker session (timetracking/models.py), *)
(* the tracker endpoint (TrackerView) and the booking path                 *)
(* (TimeEntryViewSet._book_from_tracker) of timetracking/views.py.         *)
(*                                                                         *)
(* Every HTTP request is its own thread of control.  A request is split at *)
(* the points where it talks to MongoDB or reads the clock, so that other  *)
(* requests and the clock can move in between, as they can in the server.  *)
(* MongoEngine's Document.save() of a loaded document writes only the      *)
(* fields whose value was changed on the in-memory copy ($set / $unset).   *)
(***************************************************************************)
EXTENDS Integers, Sequences, FiniteSets, TLC

\* ---- bounds of the model ----
MaxTime == 2
MaxRequests == 3
TicksPerSecond == 2
MaxAccumulated == 2

\* ---- program constants ----
MaxFutureMinutes == 5

Users == {"u1", "u2"}
OneUser == {"u1"}
Requests == {1, 2}
TrackerActions == {"start", "pause", "resume", "reset"}
AllActions == TrackerActions \cup {"stop"}

\* An optional value (Python None or a value).
None == << >>
Some(x) == << x >>

VARIABLES
    now,              \* the clock, in ticks
    res,              \* ticks per second of the clock
    tracker_sessions, \* the tracker_sessions collection: a set of documents
    time_entries,     \* the time_entries collection, in insertion order
    req,              \* the requests being served, by slot
    ran,              \* history: per user, the ticks for which the stored session has run
    started,          \* history: the number of requests received so far
    quota,            \* the number of requests the model follows
    seen              \* history: the elapsed time the last status response reported
                      \* (None where the behaviour does not keep it)

vars == << now, res, tracker_sessions, time_entries, req, ran, started, quota, seen >>

----------------------------------------------------------------------------
\* A conversion that takes the ticks for seconds.
IntSeconds_Ticks(d) == d

\* timedelta.total_seconds() followed by int(): truncation toward zero.
IntSeconds(d) == IF d >= 0 THEN d \div res ELSE -((-d) \div res)

Max(a, b) == IF a >= b THEN a ELSE b

\* TrackerSession.get_current_elapsed_seconds
get_current_elapsed_seconds(t, clock) ==
    LET total == t.accumulated_seconds
        current_session ==
            IF t.is_running /\ t.started_at # None
            THEN IF t.paused_at # None
                 THEN IntSeconds(t.paused_at[1] - t.started_at[1])
                 ELSE IntSeconds(clock - t.started_at[1])
            ELSE 0
    IN Max(0, total + current_session)

\* An in-memory document: its fields and the names of the fields changed
\* since it was loaded or last saved.
Loaded(d) == [doc |-> d, changed |-> {}]

\* BaseField.__set__: assigning a field marks it as changed when the new value
\* differs from the one held; a timezone-aware datetime never equals the naive
\* one that was loaded, so such an assignment (aware = TRUE) always marks it.
SetAttr(o, f, v, aware) ==
    [doc |-> [o.doc EXCEPT ![f] = v],
     changed |-> IF aware \/ o.doc[f] # v THEN o.changed \cup {f} ELSE o.changed]

\* A pause that banks nothing.
pause_NoBank(o, clock) ==
    IF o.doc.is_running /\ o.doc.paused_at = None
    THEN SetAttr(SetAttr(o, "paused_at", Some(clock), TRUE), "is_running", FALSE, FALSE)
    ELSE o

\* A pause that does nothing at all on a session without started_at.
pause_NeedsStart(o, clock) ==
    IF o.doc.is_running /\ o.doc.paused_at = None /\ o.doc.started_at # None
    THEN LET o1 == SetAttr(o, "paused_at", Some(clock), TRUE)
             o2 == SetAttr(o1, "is_running", FALSE, FALSE)
         IN SetAttr(o2, "accumulated_seconds",
                    o2.doc.accumulated_seconds
                      + IntSeconds(clock - o2.doc.started_at[1]), FALSE)
    ELSE o

\* TrackerSession.pause
pause(o, clock) ==
    IF o.doc.is_running /\ o.doc.paused_at = None
    THEN LET o1 == SetAttr(o, "paused_at", Some(clock), TRUE)
             o2 == SetAttr(o1, "is_running", FALSE, FALSE)
         IN IF o2.doc.started_at # None
            THEN SetAttr(o2, "accumulated_seconds",
                         o2.doc.accumulated_seconds
                           + IntSeconds(clock - o2.doc.started_at[1]), FALSE)
            ELSE o2
    ELSE o

\* A resume that drops the banked seconds.
resume_DropsBanked(o, clock) ==
    IF ~o.doc.is_running
    THEN SetAttr(SetAttr(SetAttr(SetAttr(o, "started_at", Some(clock), TRUE),
                                 "paused_at", None, FALSE),
                         "accumulated_seconds", 0, FALSE),
                 "is_running", TRUE, FALSE)
    ELSE o

\* TrackerSession.resume
resume(o, clock) ==
    IF ~o.doc.is_running
    THEN SetAttr(SetAttr(SetAttr(o, "started_at", Some(clock), TRUE),
                         "paused_at", None, FALSE),
                 "is_running", TRUE, FALSE)
    ELSE o

\* A reset that keeps the banked seconds.
reset_KeepsAccumulated(o, clock) ==
    SetAttr(SetAttr(SetAttr(o, "started_at", Some(clock), TRUE),
                    "paused_at", None, FALSE),
            "is_running", FALSE, FALSE)

\* A reset that leaves is_running as it is.
reset_KeepsRunning(o, clock) ==
    SetAttr(SetAttr(SetAttr(o, "started_at", Some(clock), TRUE),
                    "paused_at", None, FALSE),
            "accumulated_seconds", 0, FALSE)

\* TrackerSession.reset
reset(o, clock) ==
    SetAttr(SetAttr(SetAttr(SetAttr(o, "started_at", Some(clock), TRUE),
                            "paused_at", None, FALSE),
                    "accumulated_seconds", 0, FALSE),
            "is_running", FALSE, FALSE)

\* A validation that lets every document through.
clean_Lenient(d) == d.started_at # None

\* TrackerSession.clean together with the field validation of save():
\* TRUE when the document may be saved.
clean(d) ==
    /\ d.started_at # None
    /\ d.accumulated_seconds >= 0
    /\ ~(d.paused_at # None /\ d.started_at # None /\ d.paused_at[1] < d.started_at[1])

\* A view whose pause branch banks the time since started_at whenever asked.
TrackerPost_PauseAgain(action, o, clock) ==
    CASE action = "start" ->
           IF ~o.doc.is_running
           THEN [o |-> SetAttr(SetAttr(SetAttr(o, "started_at", Some(clock), FALSE),
                                       "paused_at", None, FALSE),
                               "is_running", TRUE, FALSE),
                 save |-> TRUE, message |-> "Tracker started"]
           ELSE [o |-> o, save |-> FALSE, message |-> "Tracker already running"]
      [] action = "pause" ->
           [o |-> SetAttr(SetAttr(SetAttr(o, "paused_at", Some(clock), TRUE),
                                  "is_running", FALSE, FALSE),
                          "accumulated_seconds",
                          o.doc.accumulated_seconds
                            + IntSeconds(clock - o.doc.started_at[1]), FALSE),
            save |-> TRUE, message |-> "Tracker paused"]
      [] action = "resume" ->
           IF ~o.doc.is_running
           THEN [o |-> resume(o, clock), save |-> TRUE, message |-> "Tracker resumed"]
           ELSE [o |-> o, save |-> FALSE, message |-> "Tracker already running"]
      [] action = "reset" ->
           [o |-> reset(o, clock), save |-> TRUE, message |-> "Tracker reset"]
      [] OTHER ->
           [o |-> o, save |-> FALSE, message |-> "Invalid action"]

\* A view whose start branch begins a fresh count.
TrackerPost_StartZeroes(action, o, clock) ==
    CASE action = "start" ->
           IF ~o.doc.is_running
           THEN [o |-> SetAttr(SetAttr(SetAttr(SetAttr(o, "started_at", Some(clock), FALSE),
                                               "paused_at", None, FALSE),
                                       "accumulated_seconds", 0, FALSE),
                               "is_running", TRUE, FALSE),
                 save |-> TRUE, message |-> "Tracker started"]
           ELSE [o |-> o, save |-> FALSE, message |-> "Tracker already running"]
      [] action = "pause" ->
           IF o.doc.is_running
           THEN [o |-> pause(o, clock), save |-> TRUE, message |-> "Tracker paused"]
           ELSE [o |-> o, save |-> FALSE, message |-> "Tracker already paused"]
      [] action = "resume" ->
           IF ~o.doc.is_running
           THEN [o |-> resume(o, clock), save |-> TRUE, message |-> "Tracker resumed"]
           ELSE [o |-> o, save |-> FALSE, message |-> "Tracker already running"]
      [] action = "reset" ->
           [o |-> reset(o, clock), save |-> TRUE, message |-> "Tracker reset"]
      [] OTHER ->
           [o |-> o, save |-> FALSE, message |-> "Invalid action"]

\* A view whose start branch restarts a session that is running.
TrackerPost_Restarts(action, o, clock) ==
    CASE action = "start" ->
           [o |-> SetAttr(SetAttr(SetAttr(o, "started_at", Some(clock), FALSE),
                                  "paused_at", None, FALSE),
                          "is_running", TRUE, FALSE),
            save |-> TRUE, message |-> "Tracker started"]
      [] action = "pause" ->
           IF o.doc.is_running
           THEN [o |-> pause(o, clock), save |-> TRUE, message |-> "Tracker paused"]
           ELSE [o |-> o, save |-> FALSE, message |-> "Tracker already paused"]
      [] action = "resume" ->
           IF ~o.doc.is_running
           THEN [o |-> resume(o, clock), save |-> TRUE, message |-> "Tracker resumed"]
           ELSE [o |-> o, save |-> FALSE, message |-> "Tracker already running"]
      [] action = "reset" ->
           [o |-> reset(o, clock), save |-> TRUE, message |-> "Tracker reset"]
      [] OTHER ->
           [o |-> o, save |-> FALSE, message |-> "Invalid action"]

\* The branches of TrackerView.post: the document after the action, whether
\* save() is called, and the message ("Invalid action" when the action is none of the four).
TrackerPost(action, o, clock) ==
    CASE action = "start" ->
           IF ~o.doc.is_running
           THEN [o |-> SetAttr(SetAttr(SetAttr(o, "started_at", Some(clock), FALSE),
                                       "paused_at", None, FALSE),
                               "is_running", TRUE, FALSE),
                 save |-> TRUE, message |-> "Tracker started"]
           ELSE [o |-> o, save |-> FALSE, message |-> "Tracker already running"]
      [] action = "pause" ->
           IF o.doc.is_running
           THEN [o |-> pause(o, clock), save |-> TRUE, message |-> "Tracker paused"]
           ELSE [o |-> o, save |-> FALSE, message |-> "Tracker already paused"]
      [] action = "resume" ->
           IF ~o.doc.is_running
           THEN [o |-> resume(o, clock), save |-> TRUE, message |-> "Tracker resumed"]
           ELSE [o |-> o, save |-> FALSE, message |-> "Tracker already running"]
      [] action = "reset" ->
           [o |-> reset(o, clock), save |-> TRUE, message |-> "Tracker reset"]
      [] OTHER ->
           [o |-> o, save |-> FALSE, message |-> "Invalid action"]

\* TrackerSession.objects.get(user=user): the stored documents of a user.
SessionsOf(coll, u) == {d \in coll : d.user = u}

\* Document.save() of a loaded document: an update of the stored document with
\* the same id that sets exactly the changed fields.
UpdateDoc(coll, o) ==
    {IF d.id = o.doc.id
       THEN [f \in DOMAIN d |-> IF f \in o.changed THEN o.doc[f] ELSE d[f]]
       ELSE d : d \in coll}

\* History: the running time of the stored sessions after a write that leaves
\* the collection as new.  A session runs from the instant its starting request
\* read the clock to the instant its stopping request read it, so the delay
\* between a request's reading of the clock and its write neither counts as
\* running time nor as lost time.
Running(coll, u) == \E d \in SessionsOf(coll, u) : d.is_running
StopInstant(d) == IF d.paused_at # None THEN d.paused_at[1] ELSE d.started_at[1]
RanAfter(old, new, run, clock) ==
    [u \in DOMAIN run |->
       IF ~Running(old, u) /\ Running(new, u)
       THEN LET d == CHOOSE x \in SessionsOf(new, u) : x.is_running
            IN run[u] + (clock - d.started_at[1])
       ELSE IF Running(old, u) /\ ~Running(new, u)
       THEN LET d == CHOOSE x \in SessionsOf(new, u) : TRUE
            IN run[u] - (clock - StopInstant(d))
       ELSE run[u]]

\* A new document that keeps the field default of is_running.
NewTracker_Running(u, clock, n) ==
    [id |-> << u, n >>, user |-> u, started_at |-> Some(clock), paused_at |-> None,
     accumulated_seconds |-> 0, is_running |-> TRUE]

\* The document built by get_or_create_tracker, with the model's defaults.
NewTracker(u, clock, n) ==
    [id |-> << u, n >>, user |-> u, started_at |-> Some(clock), paused_at |-> None,
     accumulated_seconds |-> 0, is_running |-> FALSE]

\* A validation that lets an entry end before it starts.
EntryClean_Lenient(e, clock) ==
    /\ e.duration_seconds >= 1
    /\ e.end_time <= clock + MaxFutureMinutes * 60 * res

\* TimeEntry.clean together with the field validation of save().
EntryClean(e, clock) ==
    /\ e.duration_seconds >= 1
    /\ e.end_time <= clock + MaxFutureMinutes * 60 * res
    /\ ~(e.start_time # None /\ e.start_time[1] >= e.end_time)

----------------------------------------------------------------------------
\* A request slot that serves nothing.  Besides the request data (the action,
\* the end_time and the duration_seconds given with a booking, the data of a
\* manual entry) and the
\* handler's own state (pc, the in-memory tracker t, the outcome out) a slot
\* keeps history of the request:
\*   had, n0   whether a session of the user was stored, and the number of stored
\*             entries, when the request arrived
\*   loaded    the document it loaded
\*   raced     it loaded the document while another request was in flight
\*   at        the instant its transition (or its duration) read from the clock
\*   dur       the duration it computed (a booking), the elapsed time it
\*             reported (a status request)
\*   entry     the index of the entry it created (0: none)
\*   wrote     its write of the tracker reached the store
\*   overlap   another request was in flight, or has arrived, since it arrived
Idle ==
    [kind |-> "idle", user |-> "u1", action |-> "", end_time |-> 0, given |-> None,
     data |-> None, pc |-> "idle",
     t |-> None, out |-> "",
     had |-> FALSE, n0 |-> 0, loaded |-> None, raced |-> FALSE, at |-> 0, dur |-> 0,
     entry |-> 0, wrote |-> FALSE, overlap |-> FALSE]

Busy(q) == req[q].pc \notin {"idle", "done"}

\* A request arrives in slot r (slots are taken lowest first).
Begin(r, new) ==
    /\ req[r].kind = "idle"
    /\ \A q \in Requests : q < r => req[q].kind # "idle"
    /\ started < quota
    /\ started' = started + 1
    /\ LET others == \E q \in Requests : q # r /\ Busy(q)
       IN req' = [q \in Requests |->
                    IF q = r
                    THEN [new EXCEPT !.overlap = others,
                                     !.had = SessionsOf(tracker_sessions, new.user) # {},
                                     !.n0 = Len(time_entries)]
                    ELSE IF req[q].kind # "idle" THEN [req[q] EXCEPT !.overlap = TRUE]
                    ELSE req[q]]
    /\ UNCHANGED << now, res, tracker_sessions, time_entries, ran, quota, seen >>

Init ==
    /\ now = 0
    /\ res = 1
    /\ tracker_sessions = {}
    /\ time_entries = << >>
    /\ req = [r \in Requests |-> Idle]
    /\ ran = [u \in Users |-> 0]
    /\ started = 0
    /\ quota = MaxRequests
    /\ seen = None

\* The clock advances by one tick.
Tick ==
    /\ now < MaxTime * res
    /\ now' = now + 1
    /\ ran' = [u \in Users |->
                 IF \E d \in SessionsOf(tracker_sessions, u) : d.is_running
                 THEN ran[u] + 1 ELSE ran[u]]
    /\ UNCHANGED << res, tracker_sessions, time_entries, req, started, quota, seen >>

\* The wall clock is set back by one tick (timezone.now() and datetime.utcnow()
\* read the system clock, which is not monotonic).
ClockBack ==
    /\ now > 0
    /\ now' = now - 1
    /\ ran' = [u \in Users |->
                 IF \E d \in SessionsOf(tracker_sessions, u) : d.is_running
                 THEN ran[u] - 1 ELSE ran[u]]
    /\ UNCHANGED << res, tracker_sessions, time_entries, req, started, quota, seen >>

\* A GET of the tracker endpoint arrives.
BeginStatus(r, users) ==
    \E u \in users :
       Begin(r, [Idle EXCEPT !.kind = "status", !.user = u, !.pc = "get"])

\* A POST of the tracker endpoint arrives.
BeginAction(r, users, actions) ==
    \E u \in users, a \in actions :
       Begin(r, [Idle EXCEPT !.kind = "action", !.user = u, !.action = a, !.pc = "get"])

\* A lookup that does not filter by user.
GetTracker_AnyUser(r) ==
    /\ req[r].pc = "get"
    /\ IF tracker_sessions = {}
       THEN req' = [req EXCEPT ![r].pc = "create"]
       ELSE \E d \in tracker_sessions :
               req' = [req EXCEPT ![r].t = Some(Loaded(d)),
                                  ![r].loaded = Some(d),
                                  ![r].raced = \E q \in Requests : q # r /\ Busy(q),
                                  ![r].pc = "act"]
    /\ UNCHANGED << now, res, tracker_sessions, time_entries, ran, started, quota, seen >>

\* get_or_create_tracker, the lookup.
GetTracker(r) ==
    /\ req[r].pc = "get"
    /\ LET found == SessionsOf(tracker_sessions, req[r].user)
       IN IF found = {}
          THEN req' = [req EXCEPT ![r].pc = "create"]
          ELSE IF Cardinality(found) > 1
          THEN req' = [req EXCEPT ![r].pc = "done", ![r].out = "MultipleObjectsReturned"]
          ELSE LET d == CHOOSE x \in found : TRUE
               IN req' = [req EXCEPT ![r].t = Some(Loaded(d)),
                                     ![r].loaded = Some(d),
                                     ![r].raced = \E q \in Requests : q # r /\ Busy(q),
                                     ![r].pc = "act"]
    /\ UNCHANGED << now, res, tracker_sessions, time_entries, ran, started, quota, seen >>

\* A creation into a collection without the unique index.
CreateTracker_NoIndex(r) ==
    /\ req[r].pc = "create"
    /\ LET u == req[r].user
           d == NewTracker(u, now, Cardinality(SessionsOf(tracker_sessions, u)))
       IN /\ tracker_sessions' = tracker_sessions \cup {d}
          /\ req' = [req EXCEPT ![r].t = Some(Loaded(d)),
                                ![r].wrote = TRUE,
                                ![r].pc = "act"]
    /\ UNCHANGED << now, res, time_entries, ran, started, quota, seen >>

\* get_or_create_tracker, the creation: the insert is refused by the unique
\* index on user when a session of that user is already stored.
CreateTracker(r) ==
    /\ req[r].pc = "create"
    /\ LET u == req[r].user
           d == NewTracker(u, now, Cardinality(SessionsOf(tracker_sessions, u)))
       IN IF SessionsOf(tracker_sessions, u) # {}
          THEN /\ req' = [req EXCEPT ![r].pc = "done", ![r].out = "NotUniqueError"]
               /\ UNCHANGED tracker_sessions
          ELSE /\ tracker_sessions' = tracker_sessions \cup {d}
               /\ req' = [req EXCEPT ![r].t = Some(Loaded(d)),
                                     ![r].wrote = TRUE,
                                     ![r].pc = "act"]
    /\ UNCHANGED << now, res, time_entries, ran, started, quota, seen >>

\* A status query that stores the elapsed time it computed.
Respond_Stores(r) ==
    /\ req[r].pc = "act"
    /\ req[r].kind = "status"
    /\ LET e == get_current_elapsed_seconds(req[r].t[1].doc, now)
           o == SetAttr(req[r].t[1], "accumulated_seconds", e, TRUE)
       IN /\ req' = [req EXCEPT ![r].pc = "done", ![r].out = "200", ![r].at = now,
                                ![r].dur = e, ![r].wrote = TRUE]
          /\ tracker_sessions' = UpdateDoc(tracker_sessions, o)
    /\ seen' = seen
    /\ UNCHANGED << now, res, time_entries, ran, started, quota >>

\* TrackerView.get: the response.
Respond(r) ==
    /\ req[r].pc = "act"
    /\ req[r].kind = "status"
    /\ req' = [req EXCEPT ![r].pc = "done", ![r].out = "200", ![r].at = now,
                          ![r].dur = get_current_elapsed_seconds(req[r].t[1].doc, now)]
    /\ seen' = IF seen = None THEN None
               ELSE Some(get_current_elapsed_seconds(req[r].t[1].doc, now))
    /\ UNCHANGED << now, res, tracker_sessions, time_entries, ran, started, quota >>

\* TrackerView.post: the action on the in-memory document.
Act(r) ==
    /\ req[r].pc = "act"
    /\ req[r].kind = "action"
    /\ LET p == TrackerPost(req[r].action, req[r].t[1], now)
       IN IF p.message = "Invalid action"
          THEN req' = [req EXCEPT ![r].pc = "done", ![r].out = "400", ![r].at = now]
          ELSE IF p.save
          THEN req' = [req EXCEPT ![r].t = Some(p.o), ![r].out = p.message,
                                  ![r].at = now, ![r].pc = "save"]
          ELSE req' = [req EXCEPT ![r].pc = "done", ![r].out = p.message, ![r].at = now]
    /\ UNCHANGED << now, res, tracker_sessions, time_entries, ran, started, quota, seen >>

\* A view that answers before it saves, and leaves the save for later.
SaveTracker_Deferred(r) ==
    /\ req[r].pc = "save"
    /\ req[r].kind = "action"
    /\ req' = [req EXCEPT ![r].pc = "done"]
    /\ UNCHANGED << now, res, tracker_sessions, time_entries, ran, started, quota, seen >>

\* TrackerView.post: tracker.save() and the response.
SaveTracker(r) ==
    /\ req[r].pc = "save"
    /\ req[r].kind = "action"
    /\ LET o == req[r].t[1]
       IN IF clean(o.doc)
          THEN /\ tracker_sessions' = UpdateDoc(tracker_sessions, o)
               /\ ran' = RanAfter(tracker_sessions, UpdateDoc(tracker_sessions, o), ran, now)
               /\ req' = [req EXCEPT ![r].pc = "done", ![r].wrote = TRUE,
                                     ![r].t = Some(Loaded(o.doc))]
          ELSE /\ req' = [req EXCEPT ![r].pc = "done", ![r].out = "ValidationError"]
               /\ UNCHANGED << tracker_sessions, ran >>
    /\ UNCHANGED << now, res, time_entries, started, quota, seen >>

\* The end_time values a caller sends with a booking: just past, the present
\* instant, and beyond the tolerated future.
EndTimes == {now - 1, now, now + MaxFutureMinutes * 60 * res + 1}

\* TimeEntrySerializer.validate_end_time
validate_end_time(value, clock) == value <= clock + MaxFutureMinutes * 60 * res

\* TimeEntrySerializer.duration_seconds (required, min_value=1) and
\* validate_duration_seconds
validate_duration_seconds(value) == value # None /\ value[1] >= 1

\* The data a caller sends with a booking: a duration_seconds that passes
\* validation with each end_time, and a missing or zero duration_seconds.
BookInputs ==
    {[duration_seconds |-> Some(7), end_time |-> e] : e \in EndTimes}
      \cup {[duration_seconds |-> g, end_time |-> now] : g \in {None, Some(0)}}

\* A POST of the entries endpoint with booked_from_tracker = true arrives and
\* its data is validated by the serializer.
BeginBook(r, users) ==
    \E u \in users, data \in BookInputs :
       Begin(r, IF /\ validate_duration_seconds(data.duration_seconds)
                   /\ validate_end_time(data.end_time, now)
                THEN [Idle EXCEPT !.kind = "book", !.user = u,
                                  !.end_time = data.end_time,
                                  !.given = data.duration_seconds, !.pc = "bget"]
                ELSE [Idle EXCEPT !.kind = "book", !.user = u,
                                  !.end_time = data.end_time,
                                  !.given = data.duration_seconds,
                                  !.pc = "done", !.out = "400"])

\* The data a caller sends with a manual entry (a field is None when it is not
\* sent): two that pass validation, with and without start_time, and one for
\* each way of failing it.
ManualInputs ==
    { [duration_seconds |-> Some(7), start_time |-> None, end_time |-> Some(now)],
      [duration_seconds |-> Some(7), start_time |-> Some(now - 1), end_time |-> Some(now)],
      [duration_seconds |-> None, start_time |-> None, end_time |-> Some(now)],
      [duration_seconds |-> Some(0), start_time |-> None, end_time |-> Some(now)],
      [duration_seconds |-> Some(7), start_time |-> None, end_time |-> None],
      [duration_seconds |-> Some(7), start_time |-> Some(now), end_time |-> Some(now)],
      [duration_seconds |-> Some(7), start_time |-> None,
       end_time |-> Some(now + MaxFutureMinutes * 60 * res + 1)] }

\* The serializer's validation of a manual entry: the required fields, the
\* field validators, and TimeEntryCreateSerializer.validate.
validate(data, clock) ==
    /\ validate_duration_seconds(data.duration_seconds)
    /\ data.end_time # None
    /\ validate_end_time(data.end_time[1], clock)
    /\ ~(data.start_time # None /\ data.start_time[1] >= data.end_time[1])

\* A POST of the entries endpoint with booked_from_tracker = false arrives and
\* its data is validated by the serializer.
BeginManual(r, users) ==
    \E u \in users, data \in ManualInputs :
       Begin(r, IF validate(data, now)
                THEN [Idle EXCEPT !.kind = "manual", !.user = u, !.data = Some(data),
                                  !.at = now, !.pc = "mcreate"]
                ELSE [Idle EXCEPT !.kind = "manual", !.user = u, !.data = Some(data),
                                  !.at = now, !.pc = "done", !.out = "400"])

\* The entry that serializer.save(user=user) of perform_create builds.
ManualEntry(r) ==
    [user |-> req[r].user,
     duration_seconds |-> req[r].data[1].duration_seconds[1],
     start_time |-> req[r].data[1].start_time,
     end_time |-> req[r].data[1].end_time[1],
     booked_from_tracker |-> FALSE,
     created_at |-> now]

\* A manual creation that resets the owner's tracker as a booking does.
ManualCreate_ResetsTracker(r) ==
    /\ req[r].pc = "mcreate"
    /\ time_entries' = Append(time_entries, ManualEntry(r))
    /\ tracker_sessions' = {IF d.user = req[r].user THEN reset(Loaded(d), now).doc ELSE d :
                               d \in tracker_sessions}
    /\ req' = [req EXCEPT ![r].pc = "done", ![r].out = "201",
                          ![r].entry = Len(time_entries) + 1]
    /\ UNCHANGED << now, res, ran, started, quota, seen >>

\* perform_create, the manual branch: serializer.save(user=user) validates and
\* inserts the entry.
ManualCreate(r) ==
    /\ req[r].pc = "mcreate"
    /\ IF EntryClean(ManualEntry(r), now)
       THEN /\ time_entries' = Append(time_entries, ManualEntry(r))
            /\ req' = [req EXCEPT ![r].pc = "done", ![r].out = "201",
                                  ![r].entry = Len(time_entries) + 1]
       ELSE /\ req' = [req EXCEPT ![r].pc = "done", ![r].out = "ValidationError"]
            /\ UNCHANGED time_entries
    /\ UNCHANGED << now, res, tracker_sessions, ran, started, quota, seen >>

\* A PUT or PATCH of one of the user's entries arrives.  The view looks the
\* entry up and hands it to TimeEntrySerializer, which has no Meta and so cannot
\* build its fields: the request fails before anything is assigned or saved.
BeginUpdate(r, users) ==
    \E u \in users :
       Begin(r, [Idle EXCEPT !.kind = "update", !.user = u, !.pc = "done",
                             !.out = IF \E i \in 1..Len(time_entries) : time_entries[i].user = u
                                     THEN "500"
                                     ELSE "404"])

\* A lookup that creates the session when none is stored.
BookGet_Creates(r) ==
    /\ req[r].pc = "bget"
    /\ LET found == SessionsOf(tracker_sessions, req[r].user)
           d == IF found = {} THEN NewTracker(req[r].user, now, 0)
                ELSE CHOOSE x \in found : TRUE
       IN /\ tracker_sessions' = tracker_sessions \cup {d}
          /\ req' = [req EXCEPT ![r].t = Some(Loaded(d)),
                                ![r].loaded = IF found = {} THEN None ELSE Some(d),
                                ![r].pc = "compute"]
    /\ UNCHANGED << now, res, time_entries, ran, started, quota, seen >>

\* _book_from_tracker: TrackerSession.objects.get(user=user).
BookGet(r) ==
    /\ req[r].pc = "bget"
    /\ LET found == SessionsOf(tracker_sessions, req[r].user)
       IN IF found = {}
          THEN req' = [req EXCEPT ![r].pc = "done",
                                  ![r].out = "ValueError: No active tracker session found"]
          ELSE IF Cardinality(found) > 1
          THEN req' = [req EXCEPT ![r].pc = "done", ![r].out = "MultipleObjectsReturned"]
          ELSE LET d == CHOOSE x \in found : TRUE
               IN req' = [req EXCEPT ![r].t = Some(Loaded(d)),
                                     ![r].loaded = Some(d),
                                     ![r].raced = \E q \in Requests : q # r /\ Busy(q),
                                     ![r].pc = "compute"]
    /\ UNCHANGED << now, res, tracker_sessions, time_entries, ran, started, quota, seen >>

\* A test that lets a zero duration through.
NothingToBook_Strict(duration_seconds) == duration_seconds < 0

\* _book_from_tracker: the test that there is nothing to book.
NothingToBook(duration_seconds) == duration_seconds <= 0

\* _book_from_tracker: the duration is the tracker's elapsed time.
BookCompute(r) ==
    /\ req[r].pc = "compute"
    /\ LET duration_seconds == get_current_elapsed_seconds(req[r].t[1].doc, now)
       IN IF NothingToBook(duration_seconds)
          THEN req' = [req EXCEPT ![r].pc = "done", ![r].dur = duration_seconds,
                                  ![r].at = now,
                                  ![r].out = "ValueError: No time tracked to book"]
          ELSE req' = [req EXCEPT ![r].pc = "entry", ![r].dur = duration_seconds,
                                  ![r].at = now]
    /\ UNCHANGED << now, res, tracker_sessions, time_entries, ran, started, quota, seen >>

\* An entry that keeps the duration_seconds the caller sent.
BookedEntry_GivenDuration(r) ==
    [user |-> req[r].user,
     duration_seconds |-> req[r].given[1],
     start_time |-> req[r].t[1].doc.started_at,
     end_time |-> req[r].end_time,
     booked_from_tracker |-> TRUE,
     created_at |-> now]

\* An entry whose start_time is the booking instant less the booked duration.
BookedEntry_FirstSegment(r) ==
    [user |-> req[r].user,
     duration_seconds |-> req[r].dur,
     start_time |-> Some(req[r].at - req[r].dur * res),
     end_time |-> req[r].end_time,
     booked_from_tracker |-> TRUE,
     created_at |-> now]

\* The entry that serializer.save(...) of _book_from_tracker builds.
BookedEntry(r) ==
    [user |-> req[r].user,
     duration_seconds |-> req[r].dur,
     start_time |-> req[r].t[1].doc.started_at,
     end_time |-> req[r].end_time,
     booked_from_tracker |-> TRUE,
     created_at |-> now]

\* A creation that goes on to the reset when the entry is refused.
BookCreate_ResetsAnyway(r) ==
    /\ req[r].pc = "entry"
    /\ IF EntryClean(BookedEntry(r), now)
       THEN /\ time_entries' = Append(time_entries, BookedEntry(r))
            /\ req' = [req EXCEPT ![r].pc = "reset", ![r].entry = Len(time_entries) + 1]
            /\ UNCHANGED << tracker_sessions, ran >>
       ELSE /\ tracker_sessions' = UpdateDoc(tracker_sessions, reset(req[r].t[1], now))
            /\ ran' = RanAfter(tracker_sessions,
                               UpdateDoc(tracker_sessions, reset(req[r].t[1], now)), ran, now)
            /\ req' = [req EXCEPT ![r].pc = "done", ![r].out = "ValidationError",
                                  ![r].wrote = TRUE]
            /\ UNCHANGED time_entries
    /\ UNCHANGED << now, res, started, quota, seen >>

\* A creation that builds the entry without inserting it.
BookCreate_NotInserted(r) ==
    /\ req[r].pc = "entry"
    /\ IF EntryClean(BookedEntry(r), now)
       THEN req' = [req EXCEPT ![r].pc = "reset"]
       ELSE req' = [req EXCEPT ![r].pc = "done", ![r].out = "ValidationError"]
    /\ UNCHANGED << now, res, tracker_sessions, time_entries, ran, started, quota, seen >>

\* _book_from_tracker: serializer.save(...) validates and inserts the entry.
BookCreate(r) ==
    /\ req[r].pc = "entry"
    /\ IF EntryClean(BookedEntry(r), now)
       THEN /\ time_entries' = Append(time_entries, BookedEntry(r))
            /\ req' = [req EXCEPT ![r].pc = "reset", ![r].entry = Len(time_entries) + 1]
       ELSE /\ req' = [req EXCEPT ![r].pc = "done", ![r].out = "ValidationError"]
            /\ UNCHANGED time_entries
    /\ UNCHANGED << now, res, tracker_sessions, ran, started, quota, seen >>

\* _book_from_tracker: tracker.reset() on the in-memory document.
BookReset(r) ==
    /\ req[r].pc = "reset"
    /\ req' = [req EXCEPT ![r].t = Some(reset(req[r].t[1], now)), ![r].pc = "bsave"]
    /\ UNCHANGED << now, res, tracker_sessions, time_entries, ran, started, quota, seen >>

\* A booking that ends by deleting the session instead of saving its reset.
BookSave_Deletes(r) ==
    /\ req[r].pc = "bsave"
    /\ tracker_sessions' = {d \in tracker_sessions : d.id # req[r].t[1].doc.id}
    /\ req' = [req EXCEPT ![r].pc = "done", ![r].wrote = TRUE, ![r].out = "201"]
    /\ UNCHANGED << now, res, time_entries, ran, started, quota, seen >>

\* _book_from_tracker: tracker.save().
BookSave(r) ==
    /\ req[r].pc = "bsave"
    /\ LET o == req[r].t[1]
       IN IF clean(o.doc)
          THEN /\ tracker_sessions' = UpdateDoc(tracker_sessions, o)
               /\ ran' = RanAfter(tracker_sessions, UpdateDoc(tracker_sessions, o), ran, now)
               /\ req' = [req EXCEPT ![r].pc = "done", ![r].wrote = TRUE, ![r].out = "201",
                                     ![r].t = Some(Loaded(o.doc))]
          ELSE /\ req' = [req EXCEPT ![r].pc = "done", ![r].out = "ValidationError"]
               /\ UNCHANGED << tracker_sessions, ran >>
    /\ UNCHANGED << now, res, time_entries, started, quota, seen >>

\* The store refuses the insert of the entry: the exception leaves the handler.
BookCreateFails(r) ==
    /\ req[r].pc = "entry"
    /\ req' = [req EXCEPT ![r].pc = "done", ![r].out = "OperationError"]
    /\ UNCHANGED << now, res, tracker_sessions, time_entries, ran, started, quota, seen >>

\* The store refuses the update of the tracker: the exception leaves the handler.
BookSaveFails(r) ==
    /\ req[r].pc = "bsave"
    /\ req' = [req EXCEPT ![r].pc = "done", ![r].out = "OperationError"]
    /\ UNCHANGED << now, res, tracker_sessions, time_entries, ran, started, quota, seen >>

\* The response has been sent; the slot is free again.
Return(r) ==
    /\ req[r].pc = "done"
    /\ req' = [req EXCEPT ![r] = Idle]
    /\ UNCHANGED << now, res, tracker_sessions, time_entries, ran, started, quota, seen >>

TrackerSteps(r) ==
    \/ GetTracker(r)
    \/ CreateTracker(r)
    \/ Respond(r)
    \/ Act(r)
    \/ SaveTracker(r)
    \/ Return(r)

BookSteps(r) ==
    \/ BookGet(r)
    \/ BookCompute(r)
    \/ BookCreate(r)
    \/ BookReset(r)
    \/ BookSave(r)

Next ==
    \/ Tick
    \/ \E r \in Requests :
         \/ BeginStatus(r, OneUser)
         \/ BeginAction(r, OneUser, AllActions)
         \/ BeginBook(r, OneUser)
         \/ TrackerSteps(r)
         \/ BookSteps(r)

Spec == Init /\ [][Next]_vars

\* The same server over a store whose writes can fail.
NextF ==
    \/ Next
    \/ \E r \in Requests : BookCreateFails(r) \/ BookSaveFails(r)

SpecF == Init /\ [][NextF]_vars

\* The same server when only status, start, pause and resume requests arrive.
NextSPR ==
    \/ Tick
    \/ \E r \in Requests :
         \/ BeginStatus(r, OneUser)
         \/ BeginAction(r, OneUser, {"start", "pause", "resume"})
         \/ TrackerSteps(r)

SpecSPR == Init /\ [][NextSPR]_vars

\* The same server when, besides, no request is held up between its reading of
\* the clock and its save: the clock stands still while a save is pending.
TickQuiet ==
    /\ \A r \in Requests : req[r].pc # "save"
    /\ Tick

NextQuiet ==
    \/ TickQuiet
    \/ \E r \in Requests :
         \/ BeginStatus(r, OneUser)
         \/ BeginAction(r, OneUser, {"start", "pause", "resume"})
         \/ TrackerSteps(r)

SpecQuiet == Init /\ [][NextQuiet]_vars

\* The same server when only status, start and pause requests arrive, followed
\* for two more requests.
InitSP ==
    /\ now = 0
    /\ res = 1
    /\ tracker_sessions = {}
    /\ time_entries = << >>
    /\ req = [r \in Requests |-> Idle]
    /\ ran = [u \in Users |-> 0]
    /\ started = 0
    /\ quota = MaxRequests + 2
    /\ seen = None

NextSP ==
    \/ Tick
    \/ \E r \in Requests :
         \/ BeginStatus(r, OneUser)
         \/ BeginAction(r, OneUser, {"start", "pause"})
         \/ TrackerSteps(r)

SpecSP == InitSP /\ [][NextSP]_vars

\* The same server when the requests (status, start, pause, resume) arrive one
\* after the other, each after the response to the one before; the clock ticks
\* in whole seconds or in fractions of a second, and the last reported elapsed
\* time is kept.
Alone(r) == \A q \in Requests \ {r} : req[q].kind = "idle"

InitSeq ==
    /\ now = 0
    /\ res \in {1, TicksPerSecond}
    /\ tracker_sessions = {}
    /\ time_entries = << >>
    /\ req = [r \in Requests |-> Idle]
    /\ ran = [u \in Users |-> 0]
    /\ started = 0
    /\ quota = MaxRequests + 2
    /\ seen = Some(0)

NextSeq ==
    \/ Tick
    \/ \E r \in Requests :
         \/ Alone(r) /\ BeginStatus(r, OneUser)
         \/ Alone(r) /\ BeginAction(r, OneUser, {"start", "pause", "resume"})
         \/ TrackerSteps(r)

SpecSeq == InitSeq /\ [][NextSeq]_vars

\* Status queries, one after the other, of a stored session in any state that
\* passes validation, at any reading of the clock (before started_at included).
SessionStates ==
    { d \in [id : {<< "u1", 0 >>}, user : {"u1"},
             started_at : {Some(s) : s \in 0..(MaxTime * res)},
             paused_at : {None} \cup {Some(p) : p \in 0..(MaxTime * res)},
             accumulated_seconds : 0..MaxAccumulated,
             is_running : BOOLEAN] : clean(d) }

InitElapsed ==
    /\ res \in {1, TicksPerSecond}
    /\ now \in 0..(MaxTime * res)
    /\ tracker_sessions \in {{d} : d \in SessionStates}
    /\ time_entries = << >>
    /\ req = [r \in Requests |-> Idle]
    /\ ran = [u \in Users |-> 0]
    /\ started = 0
    /\ quota = 1
    /\ seen = Some(0)

NextElapsed ==
    \E r \in Requests :
        \/ Alone(r) /\ BeginStatus(r, OneUser)
        \/ GetTracker(r)
        \/ Respond(r)
        \/ Return(r)

SpecElapsed == InitElapsed /\ [][NextElapsed]_vars

\* One start or resume request of a stored session in any state that passes
\* validation, at any reading of the clock.
NextSR ==
    \E r \in Requests :
        \/ Alone(r) /\ BeginAction(r, OneUser, {"start", "resume"})
        \/ GetTracker(r)
        \/ Act(r)
        \/ SaveTracker(r)
        \/ Return(r)

SpecSR == InitElapsed /\ [][NextSR]_vars

\* One status or pause request of a stored session that has no started_at (a
\* document that was not written through TrackerSession.save, which requires
\* the field), at any reading of the clock.
UnsetStates ==
    [id : {<< "u1", 0 >>}, user : {"u1"},
     started_at : {None},
     paused_at : {None} \cup {Some(p) : p \in 0..(MaxTime * res)},
     accumulated_seconds : 0..MaxAccumulated,
     is_running : BOOLEAN]

InitUnset ==
    /\ res \in {1, TicksPerSecond}
    /\ now \in 0..(MaxTime * res)
    /\ tracker_sessions \in {{d} : d \in UnsetStates}
    /\ time_entries = << >>
    /\ req = [r \in Requests |-> Idle]
    /\ ran = [u \in Users |-> 0]
    /\ started = 0
    /\ quota = 1
    /\ seen = None

NextUnset ==
    \E r \in Requests :
        \/ Alone(r) /\ BeginStatus(r, OneUser)
        \/ Alone(r) /\ BeginAction(r, OneUser, {"pause"})
        \/ GetTracker(r)
        \/ Respond(r)
        \/ Act(r)
        \/ SaveTracker(r)
        \/ Return(r)

SpecUnset == InitUnset /\ [][NextUnset]_vars

\* The same server when manual entries are created and edits are sent as well.
NextE ==
    \/ Tick
    \/ \E r \in Requests :
         \/ BeginStatus(r, OneUser)
         \/ BeginAction(r, OneUser, {"start", "pause"})
         \/ BeginBook(r, OneUser)
         \/ BeginManual(r, OneUser)
         \/ BeginUpdate(r, OneUser)
         \/ TrackerSteps(r)
         \/ BookSteps(r)
         \/ ManualCreate(r)

SpecE == Init /\ [][NextE]_vars

\* The same server with two users (status, start, pause and book requests).
NextTwo ==
    \/ Tick
    \/ \E r \in Requests :
         \/ BeginStatus(r, Users)
         \/ BeginAction(r, Users, {"start", "pause"})
         \/ BeginBook(r, Users)
         \/ TrackerSteps(r)
         \/ BookSteps(r)

SpecTwo == Init /\ [][NextTwo]_vars

\* The same server when requests of every kind arrive one after the other.
NextSeqAll ==
    \/ Tick
    \/ \E r \in Requests :
         \/ Alone(r) /\ BeginStatus(r, OneUser)
         \/ Alone(r) /\ BeginAction(r, OneUser, TrackerActions)
         \/ Alone(r) /\ BeginBook(r, OneUser)
         \/ TrackerSteps(r)
         \/ BookSteps(r)

SpecSeqAll == InitSP /\ [][NextSeqAll]_vars

\* The same, under a wall clock that can be set back.
NextSkew ==
    \/ NextSeqAll
    \/ ClockBack

SpecSkew == Init /\ [][NextSkew]_vars

----------------------------------------------------------------------------
\* The stored session of user u (a set: empty when none is stored).
Stored(u) == SessionsOf(tracker_sessions, u)

\* A tracker action request that has completed normally.
DoneAction(r) ==
    /\ req[r].kind = "action"
    /\ req[r].pc = "done"
    /\ req[r].action \in TrackerActions
    /\ req[r].out \in {"Tracker started", "Tracker already running", "Tracker paused",
                       "Tracker already paused", "Tracker resumed", "Tracker reset"}

\* The stored document after a whole action request has run alone on document d
\* at instant clock: load, transition, save.
SerialPost(d, action, clock) ==
    LET p == TrackerPost(action, Loaded(d), clock)
    IN IF p.save /\ clean(p.o.doc) THEN p.o.doc ELSE d

\* C1: two concurrent tracker action requests of one owner that worked on the
\* same loaded session leave the stored session as one of the two serial orders
\* of the two actions (each at the instant it read the clock) would leave it.
C1_Serializable ==
    \A r1, r2 \in Requests :
        ( /\ r1 < r2
          /\ DoneAction(r1) /\ DoneAction(r2)
          /\ req[r1].user = req[r2].user
          /\ req[r1].overlap /\ req[r2].overlap
          /\ req[r1].loaded # None
          /\ req[r1].loaded = req[r2].loaded )
        => LET d0 == req[r1].loaded[1]
               a1 == req[r1].action
               a2 == req[r2].action
               t1 == req[r1].at
               t2 == req[r2].at
           IN Stored(req[r1].user) \subseteq
                 { SerialPost(SerialPost(d0, a1, t1), a2, t2),
                   SerialPost(SerialPost(d0, a2, t2), a1, t1) }

\* C2: two pause requests that both loaded the same running session, each before
\* the other had completed, leave accumulated_seconds at the loaded value plus
\* the segment from started_at to the pause instant of one of them.
C2_OneSegment ==
    \A r1, r2 \in Requests :
        ( /\ r1 < r2
          /\ DoneAction(r1) /\ DoneAction(r2)
          /\ req[r1].action = "pause" /\ req[r2].action = "pause"
          /\ req[r1].user = req[r2].user
          /\ req[r1].raced /\ req[r2].raced
          /\ req[r1].loaded # None
          /\ req[r1].loaded = req[r2].loaded
          /\ req[r1].loaded[1].is_running )
        => LET d0 == req[r1].loaded[1]
               Banked(t) == d0.accumulated_seconds + IntSeconds(t - d0.started_at[1])
           IN \A d \in Stored(req[r1].user) :
                 d.accumulated_seconds \in {Banked(req[r1].at), Banked(req[r2].at)}

\* C3: with only start, pause and resume requests, the elapsed time of the
\* stored session is never less than the time the stored session has run.
C3_NoTimeDropped ==
    \A u \in Users :
        \A d \in Stored(u) : get_current_elapsed_seconds(d, now) * res >= ran[u]

\* The sum of duration_seconds over the entries of user u booked from the tracker.
RECURSIVE BookedSeconds(_, _)
BookedSeconds(entries, u) ==
    IF entries = << >> THEN 0
    ELSE (IF Head(entries).user = u /\ Head(entries).booked_from_tracker
          THEN Head(entries).duration_seconds ELSE 0)
         + BookedSeconds(Tail(entries), u)

\* C4: the time booked from the tracker never exceeds the time the tracker ran.
C4_BookedAtMostOnce ==
    \A u \in Users : BookedSeconds(time_entries, u) * res <= ran[u]

\* A booking request that has completed.
BookDone(r) == req[r].kind = "book" /\ req[r].pc = "done"

\* The store holds for the user of request r what r loaded (nothing, if it found
\* no session) and the entries it held when r arrived.
Untouched(r) ==
    /\ Stored(req[r].user) = (IF req[r].loaded = None THEN {} ELSE {req[r].loaded[1]})
    /\ Len(time_entries) = req[r].n0

\* C5: after a booking that succeeded with no other request about, the stored
\* session has no banked seconds, is not running, has no paused_at, and its
\* elapsed time is 0 at every instant.
C5_BookZeroesTracker ==
    \A r \in Requests :
        (BookDone(r) /\ req[r].out = "201" /\ ~req[r].overlap)
        => /\ Stored(req[r].user) # {}
           /\ \A d \in Stored(req[r].user) :
                 /\ d.accumulated_seconds = 0
                 /\ ~d.is_running
                 /\ d.paused_at = None
                 /\ \A c \in 0..MaxTime : get_current_elapsed_seconds(d, c) = 0

\* A booking of a paused session with banked seconds succeeded.
C5_Witness ==
    \E r \in Requests :
        /\ BookDone(r) /\ req[r].out = "201" /\ ~req[r].overlap
        /\ ~req[r].loaded[1].is_running
        /\ req[r].loaded[1].paused_at # None
        /\ req[r].loaded[1].accumulated_seconds > 0

\* C6: a booking whose entry is refused by validation fails without a write of
\* its own; with no other request about, the stored session is the one it loaded
\* and no entry has been added.
C6_FailedCreateKeepsTracker ==
    \A r \in Requests :
        (BookDone(r) /\ req[r].out = "ValidationError")
        => /\ req[r].entry = 0
           /\ ~req[r].wrote
           /\ ~req[r].overlap => Untouched(r)

\* The entry of a running tracker was refused: its end_time is not after started_at.
C6_Witness ==
    \E r \in Requests :
        /\ BookDone(r) /\ req[r].out = "ValidationError" /\ ~req[r].overlap
        /\ req[r].loaded[1].is_running
        /\ req[r].dur >= 1
        /\ req[r].end_time <= req[r].loaded[1].started_at[1]

\* C7: whenever the reset of a booking has been written, the entry of that
\* booking is stored.
C7_EntryBeforeReset ==
    \A r \in Requests :
        (req[r].kind = "book" /\ req[r].wrote)
        => /\ req[r].entry \in 1..Len(time_entries)
           /\ time_entries[req[r].entry].user = req[r].user
           /\ time_entries[req[r].entry].booked_from_tracker
           /\ time_entries[req[r].entry].duration_seconds = req[r].dur

\* The reset of a booking has been written.
C7_Witness ==
    \E r \in Requests :
        /\ req[r].kind = "book" /\ req[r].wrote
        /\ \A d \in Stored(req[r].user) : ~d.is_running /\ d.accumulated_seconds = 0

\* C8: a booking whose entry was created and whose reset was not written is not
\* answered as a success, its outcome differs from that of every booking that
\* failed without creating an entry, the entry stays and, with no other request
\* about, the stored session is the one it loaded.
C8_PartialFailureDistinct ==
    \A r \in Requests :
        (BookDone(r) /\ req[r].entry # 0 /\ ~req[r].wrote)
        => /\ req[r].out # "201"
           /\ \A q \in Requests :
                 (BookDone(q) /\ req[q].entry = 0) => req[q].out # req[r].out
           /\ req[r].entry \in 1..Len(time_entries)
           /\ ~req[r].overlap => Stored(req[r].user) = {req[r].loaded[1]}

\* C9: a booking that loaded a session whose elapsed time is 0 or less fails
\* with the nothing-to-book error and writes nothing.
C9_NothingToBook ==
    \A r \in Requests :
        ( /\ BookDone(r)
          /\ req[r].loaded # None
          /\ get_current_elapsed_seconds(req[r].loaded[1], req[r].at) <= 0 )
        => /\ req[r].out = "ValueError: No time tracked to book"
           /\ req[r].entry = 0
           /\ ~req[r].wrote
           /\ ~req[r].overlap => Untouched(r)

\* A booking of a session with nothing on it has completed.
C9_Witness ==
    \E r \in Requests :
        /\ BookDone(r) /\ ~req[r].overlap
        /\ req[r].loaded # None
        /\ get_current_elapsed_seconds(req[r].loaded[1], req[r].at) <= 0

\* C10: a booking for a user without a stored session fails with the
\* no-active-session error, creates no entry and stores no session.
C10_NoActiveSession ==
    \A r \in Requests :
        (BookDone(r) /\ ~req[r].had /\ ~req[r].overlap /\ req[r].out # "400")
        => /\ req[r].out = "ValueError: No active tracker session found"
           /\ req[r].entry = 0
           /\ ~req[r].wrote
           /\ Stored(req[r].user) = {}
           /\ Len(time_entries) = req[r].n0

\* A booking for a user without a stored session has completed.
C10_Witness ==
    \E r \in Requests :
        /\ BookDone(r) /\ ~req[r].had /\ ~req[r].overlap
        /\ req[r].out = "ValueError: No active tracker session found"

\* C11: a reset request served with no other request about succeeds and leaves
\* the stored session with no banked seconds, no paused_at, not running, and an
\* elapsed time of 0 at every clock instant, whatever the session was before.
C11_ResetZeroes ==
    \A r \in Requests :
        ( /\ req[r].kind = "action" /\ req[r].action = "reset"
          /\ req[r].pc = "done" /\ ~req[r].overlap )
        => /\ req[r].out = "Tracker reset"
           /\ req[r].wrote
           /\ Stored(req[r].user) # {}
           /\ \A d \in Stored(req[r].user) :
                 /\ d.accumulated_seconds = 0
                 /\ d.paused_at = None
                 /\ ~d.is_running
                 /\ \A c \in 0..(MaxTime * res) : get_current_elapsed_seconds(d, c) = 0

\* A reset of a running session has completed, and the clock has moved since.
C11_Witness ==
    \E r \in Requests :
        /\ req[r].kind = "action" /\ req[r].action = "reset"
        /\ req[r].pc = "done" /\ ~req[r].overlap
        /\ req[r].loaded # None
        /\ req[r].loaded[1].is_running
        /\ now > req[r].at

\* C12: when start, pause and resume requests are served one after the other,
\* the elapsed time reported by a status response is never less than the one
\* reported before it, and as long as the stored session stays not running its
\* elapsed time stays the same whatever the clock reads.
C12_ElapsedMonotone ==
    [][ /\ seen'[1] >= seen[1]
        /\ \A d \in Stored("u1") : \A e \in Stored("u1")' :
               (~d.is_running /\ ~e.is_running)
               => get_current_elapsed_seconds(e, now') = get_current_elapsed_seconds(d, now)
      ]_vars

\* A status response reported the banked time (a second or more) of a session
\* that was paused at an earlier instant.
C12_Witness ==
    \E r \in Requests :
        /\ req[r].kind = "status" /\ req[r].pc = "done"
        /\ req[r].loaded # None
        /\ ~req[r].loaded[1].is_running
        /\ req[r].loaded[1].paused_at # None
        /\ req[r].at > req[r].loaded[1].paused_at[1]
        /\ seen[1] >= 1

\* The spec's scenarios B and C on a new session: start at T0, pause at
\* T0 + 1500, resume at T0 + 2000, status at T0 + 2300 (T0 = 0).
ScenarioB ==
    SerialPost(SerialPost(NewTracker("u1", 0, 0), "start", 0), "pause", 1500)
ScenarioC == SerialPost(ScenarioB, "resume", 2000)

\* C13: with a whole-second clock and start, pause and resume requests served
\* one after the other, the elapsed time of the stored session equals the time
\* for which the session has run (the sum of its running segments), time spent
\* paused not counted; scenario B banks 1500 seconds and stops, scenario C
\* reports 1800.
C13_SumOfSegments ==
    res = 1 =>
      /\ \A d \in Stored("u1") : get_current_elapsed_seconds(d, now) = ran["u1"]
      /\ ScenarioB.accumulated_seconds = 1500
      /\ ~ScenarioB.is_running
      /\ get_current_elapsed_seconds(ScenarioC, 2300) = 1800

\* A session with a banked segment is running its next segment.
C13_Witness ==
    /\ res = 1
    /\ \E d \in Stored("u1") :
          /\ d.is_running
          /\ d.accumulated_seconds >= 1
          /\ now > d.started_at[1]

\* C14: a pause request that finds the session paused (served with no other
\* request about) answers that the tracker is already paused, writes nothing and
\* leaves the stored session as the first pause left it, whatever the clock
\* reads; pause() itself changes nothing on a paused session at any instant.
C14_PauseIdempotent ==
    \A r \in Requests :
        ( /\ req[r].kind = "action" /\ req[r].action = "pause"
          /\ req[r].pc = "done" /\ ~req[r].overlap
          /\ req[r].loaded # None
          /\ ~req[r].loaded[1].is_running
          /\ req[r].loaded[1].paused_at # None )
        => /\ req[r].out = "Tracker already paused"
           /\ ~req[r].wrote
           /\ Stored(req[r].user) = {req[r].loaded[1]}
           /\ \A c \in 0..(MaxTime * res) :
                 pause(Loaded(req[r].loaded[1]), c) = Loaded(req[r].loaded[1])

\* A second pause was served at a later instant than the first.
C14_Witness ==
    \E r \in Requests :
        /\ req[r].kind = "action" /\ req[r].action = "pause"
        /\ req[r].pc = "done" /\ ~req[r].overlap
        /\ req[r].loaded # None
        /\ ~req[r].loaded[1].is_running
        /\ req[r].loaded[1].paused_at # None
        /\ req[r].loaded[1].accumulated_seconds >= 1
        /\ req[r].at > req[r].loaded[1].paused_at[1]

\* C15: with a clock of several ticks per second, after at most four requests
\* served one after the other (start, pause, resume, pause) on a new session,
\* the banked accumulated_seconds, each segment floored on its own, is within
\* one second of the floor of the whole running time.
C15_FloorRounding ==
    (res > 1 /\ started <= 4) =>
        \A d \in Stored("u1") :
            ~d.is_running =>
                LET whole == ran["u1"] \div res
                IN d.accumulated_seconds - whole \in {-1, 0, 1}

\* Two segments of less than a second each were banked as 0 seconds while the
\* session ran for a second or more.
C15_Witness ==
    /\ res > 1
    /\ started = 4
    /\ \E d \in Stored("u1") :
          /\ ~d.is_running
          /\ d.paused_at # None
          /\ d.started_at[1] > 0
          /\ d.accumulated_seconds + 1 = ran["u1"] \div res

\* A request whose transition has nothing to do on the session it loaded: start
\* or resume of a running session, pause of a session that is not running.
NoOp(r) ==
    /\ req[r].kind = "action" /\ req[r].pc = "done"
    /\ req[r].loaded # None
    /\ \/ req[r].action \in {"start", "resume"} /\ req[r].loaded[1].is_running
       \/ req[r].action = "pause" /\ ~req[r].loaded[1].is_running

\* C16: a no-op transition answers with an informational message, writes
\* nothing, and (with no other request about) leaves the stored session exactly
\* as it was loaded.
C16_NoOpUnchanged ==
    \A r \in Requests :
        NoOp(r)
        => /\ req[r].out \in {"Tracker already running", "Tracker already paused"}
           /\ ~req[r].wrote
           /\ req[r].t[1] = Loaded(req[r].loaded[1])
           /\ ~req[r].overlap => Stored(req[r].user) = {req[r].loaded[1]}

\* A start of a session that has been running for a while was answered.
C16_Witness ==
    \E r \in Requests :
        /\ NoOp(r) /\ ~req[r].overlap
        /\ req[r].action = "start"
        /\ req[r].at > req[r].loaded[1].started_at[1]

\* C17: a tracker request whose action is none of start, pause, resume, reset
\* (served with no other request about) is rejected and leaves the stored state
\* of its user as it was when the request arrived: no session if none was
\* stored, the same session otherwise.
C17_InvalidActionNoMutation ==
    \A r \in Requests :
        ( /\ req[r].kind = "action" /\ req[r].action \notin TrackerActions
          /\ req[r].pc = "done" /\ ~req[r].overlap )
        => /\ req[r].out = "400"
           /\ ~req[r].wrote
           /\ Stored(req[r].user) = (IF req[r].had THEN {req[r].loaded[1]} ELSE {})

\* The session of request r has been started: by r itself, or before r loaded it.
Started(r) ==
    \/ req[r].out \in {"Tracker started", "Tracker resumed"}
    \/ /\ req[r].loaded # None
       /\ req[r].loaded[1].is_running \/ req[r].loaded[1].paused_at # None

\* C18: with requests served one after the other, after every tracker action or
\* booking on a session that has been started, the stored session has paused_at
\* set exactly when it is not running.
C18_PausedIffNotRunning ==
    \A r \in Requests :
        ( /\ req[r].kind \in {"action", "book"}
          /\ req[r].pc = "done"
          /\ Started(r) )
        => \A d \in Stored(req[r].user) : (d.paused_at # None) <=> ~d.is_running

\* C19: every stored session with both paused_at and started_at set has
\* paused_at >= started_at, and a request whose save was refused because
\* paused_at is before started_at has written nothing.
C19_PauseNotBeforeStart ==
    /\ \A u \in Users : \A d \in Stored(u) :
          (d.paused_at # None /\ d.started_at # None)
          => d.paused_at[1] >= d.started_at[1]
    /\ \A r \in Requests :
          (req[r].pc = "done" /\ req[r].out = "ValidationError" /\ req[r].kind = "action")
          => /\ ~req[r].wrote
             /\ ~req[r].overlap => Stored(req[r].user) = {req[r].loaded[1]}

\* C20: accumulated_seconds is never negative in a stored session, whatever the
\* sequence of tracker actions and bookings and whatever the clock reads, a
\* clock set back before started_at included.
C20_AccumulatedNonNegative ==
    \A u \in Users : \A d \in Stored(u) : d.accumulated_seconds >= 0

\* A pause read a clock earlier than started_at and its save was refused.
C20_Witness ==
    \E r \in Requests :
        /\ req[r].kind = "action" /\ req[r].action = "pause"
        /\ req[r].pc = "done" /\ req[r].out = "ValidationError"
        /\ req[r].loaded # None
        /\ req[r].at < req[r].loaded[1].started_at[1]
        /\ \A d \in Stored(req[r].user) : d.accumulated_seconds >= 0

\* C21: the elapsed time a status response reports is
\* max(0, accumulated_seconds + segment), a natural number, where segment is 0
\* for a session that is not running and otherwise the floor, in whole seconds,
\* of (paused_at if set, else the clock) - started_at.
C21_ElapsedFormula ==
    \A r \in Requests :
        (req[r].kind = "status" /\ req[r].pc = "done" /\ req[r].loaded # None)
        => LET d == req[r].loaded[1]
               segment_end == IF d.paused_at # None THEN d.paused_at[1] ELSE req[r].at
               segment == IF d.is_running
                          THEN (segment_end - d.started_at[1]) \div res
                          ELSE 0
           IN /\ req[r].dur \in Nat
              /\ req[r].dur = Max(0, d.accumulated_seconds + segment)

\* A status request that found a stored session has been answered.
StatusDone(r) == req[r].kind = "status" /\ req[r].pc = "done" /\ req[r].loaded # None

\* C22: a status request for a user who has a session writes nothing and leaves
\* its in-memory copy and (with no other request about) the stored session as
\* loaded; two status requests that loaded the same session and read the same
\* clock instant report the same elapsed time.
C22_StatusReadOnly ==
    /\ \A r \in Requests :
          StatusDone(r)
          => /\ ~req[r].wrote
             /\ req[r].t[1] = Loaded(req[r].loaded[1])
             /\ ~req[r].overlap => Stored(req[r].user) = {req[r].loaded[1]}
    /\ \A r1, r2 \in Requests :
          ( /\ StatusDone(r1) /\ StatusDone(r2)
            /\ req[r1].loaded = req[r2].loaded
            /\ req[r1].at = req[r2].at )
          => req[r1].dur = req[r2].dur

\* Two status requests were answered at the same instant for a session that
\* had been running for a second or more.
C22_Witness ==
    \E r1, r2 \in Requests :
        /\ r1 # r2
        /\ StatusDone(r1) /\ StatusDone(r2)
        /\ req[r1].loaded = req[r2].loaded
        /\ req[r1].at = req[r2].at
        /\ req[r1].loaded[1].is_running
        /\ req[r1].dur >= 1
        /\ Stored(req[r1].user) = {req[r1].loaded[1]}

\* Request r, the first tracker request of its user, has created the session
\* and has not yet acted on it.
Created(r) ==
    /\ req[r].kind \in {"status", "action"}
    /\ ~req[r].had /\ ~req[r].overlap
    /\ req[r].wrote
    /\ req[r].pc = "act" \/ req[r].kind = "status"

\* C23: the first tracker request of a user without a session (status or
\* action, served with no other request about) stores a session that is not
\* running, has no banked seconds and no paused_at; that session's elapsed time
\* is 0 at every clock instant, and a status request reports 0.
C23_LazyCreation ==
    \A r \in Requests :
        ( /\ req[r].kind \in {"status", "action"}
          /\ ~req[r].had /\ ~req[r].overlap
          /\ req[r].pc \in {"act", "save", "done"} )
        => /\ req[r].wrote
           /\ Created(r) =>
                /\ Stored(req[r].user) = {req[r].t[1].doc}
                /\ \A d \in Stored(req[r].user) :
                      /\ ~d.is_running
                      /\ d.accumulated_seconds = 0
                      /\ d.paused_at = None
                      /\ \A c \in 0..(MaxTime * res) : get_current_elapsed_seconds(d, c) = 0
                /\ req[r].pc = "done" => req[r].dur = 0

\* The first request of a user was a status request, answered after the clock
\* had moved on from the creation of the session.
C23_Witness ==
    \E r \in Requests :
        /\ Created(r)
        /\ req[r].kind = "status" /\ req[r].pc = "done"
        /\ req[r].at > req[r].t[1].doc.started_at[1]

\* C24: no user ever has more than one stored session, and a creation that
\* was refused by the unique index has stored nothing.
C24_OneSessionPerOwner ==
    /\ \A u \in Users : Cardinality(Stored(u)) <= 1
    /\ \A r \in Requests :
          (req[r].pc = "done" /\ req[r].out = "NotUniqueError")
          => ~req[r].wrote /\ req[r].t = None

\* Two first requests of a user both found no session; the creation of the
\* second was refused.
C24_Witness ==
    \E r1, r2 \in Requests :
        /\ r1 # r2
        /\ ~req[r1].had /\ ~req[r2].had
        /\ req[r1].user = req[r2].user
        /\ req[r1].wrote
        /\ req[r2].pc = "done" /\ req[r2].out = "NotUniqueError"
        /\ Cardinality(Stored(req[r1].user)) = 1

\* The stored time entries of user u, in insertion order.
EntriesOf(u) == SelectSeq(time_entries, LAMBDA e : e.user = u)

\* C25: a request works on documents of its own user only (the session it
\* loads, creates or writes, the entry it creates), and every step that changes
\* the stored session or the stored entries of a user is a step of a request of
\* that user.
C25_OwnersIndependent ==
    /\ [](\A r \in Requests :
            /\ req[r].t # None => req[r].t[1].doc.user = req[r].user
            /\ req[r].loaded # None => req[r].loaded[1].user = req[r].user
            /\ req[r].entry # 0 => time_entries[req[r].entry].user = req[r].user)
    /\ [][ \A u \in Users :
              (Stored(u)' # Stored(u) \/ EntriesOf(u)' # EntriesOf(u))
              => \E r \in Requests :
                    /\ req[r].user = u
                    /\ Busy(r)
                    /\ req'[r] # req[r]
                    /\ \A q \in Requests \ {r} : req'[q] = req[q]
          ]_vars

\* One user's session is running while the other user has booked an entry and
\* has a session that was reset by the booking.
C25_Witness ==
    /\ \E d \in Stored("u1") : d.is_running
    /\ EntriesOf("u1") = << >>
    /\ \E d \in Stored("u2") : ~d.is_running
    /\ EntriesOf("u2") # << >>

\* C26: the entry a booking has created is marked booked_from_tracker and its
\* duration_seconds is the elapsed time (a second or more) of the session the
\* booking loaded, at the instant the booking read the clock, whatever
\* duration_seconds the caller sent.
C26_BookedDuration ==
    \A r \in Requests :
        (req[r].kind = "book" /\ req[r].entry # 0)
        => LET e == time_entries[req[r].entry]
           IN /\ e.booked_from_tracker
              /\ e.duration_seconds >= 1
              /\ e.duration_seconds =
                   get_current_elapsed_seconds(req[r].loaded[1], req[r].at)

\* A booking succeeded whose caller sent a duration_seconds other than the
\* elapsed time of the tracker.
C26_Witness ==
    \E r \in Requests :
        /\ BookDone(r) /\ req[r].out = "201" /\ ~req[r].overlap
        /\ req[r].entry # 0
        /\ req[r].given # None
        /\ req[r].given[1] # time_entries[req[r].entry].duration_seconds

\* C27: the end_time of the entry a booking has created is the instant at
\* which the booking read the clock.
C27_EndTimeIsNow ==
    \A r \in Requests :
        (req[r].kind = "book" /\ req[r].entry # 0)
        => time_entries[req[r].entry].end_time = req[r].at

\* C28: the start_time of the entry a booking has created is the started_at of
\* the session it loaded; with requests served one after the other, started_at
\* is the instant of the last start, resume or reset that was carried out (a
\* pause leaves it alone), not the start of the first booked segment.
C28_StartTimeIsStartedAt ==
    \A r \in Requests :
        /\ (req[r].kind = "book" /\ req[r].entry # 0)
           => time_entries[req[r].entry].start_time = req[r].loaded[1].started_at
        /\ ( /\ DoneAction(r)
             /\ req[r].out \in {"Tracker started", "Tracker resumed", "Tracker reset"} )
           => \A d \in Stored(req[r].user) : d.started_at = Some(req[r].at)
        /\ (DoneAction(r) /\ req[r].out = "Tracker paused")
           => \A d \in Stored(req[r].user) : d.started_at = req[r].loaded[1].started_at

\* A booking succeeded on a session that had banked a segment before its last
\* resume.
C28_Witness ==
    \E r \in Requests :
        /\ BookDone(r) /\ req[r].out = "201"
        /\ req[r].loaded[1].accumulated_seconds >= 1
        /\ req[r].loaded[1].is_running
        /\ time_entries[req[r].entry].start_time = req[r].loaded[1].started_at
        /\ req[r].at - req[r].dur * res < req[r].loaded[1].started_at[1]

\* A request to create a manual entry that has been answered.
ManualDone(r) == req[r].kind = "manual" /\ req[r].pc = "done"

\* C29: every stored entry, booked or manual, has a duration of a second or
\* more, starts before it ends when it has a start_time, and ends no later than
\* 5 minutes after the clock at its creation; a create request whose entry would
\* break one of these is refused and inserts nothing.
C29_EntryConstraints ==
    /\ \A i \in 1..Len(time_entries) :
          LET e == time_entries[i]
          IN /\ e.duration_seconds >= 1
             /\ e.start_time # None => e.start_time[1] < e.end_time
             /\ e.end_time <= e.created_at + MaxFutureMinutes * 60 * res
    /\ \A r \in Requests :
          LET data == req[r].data[1]
          IN ( /\ ManualDone(r)
               /\ \/ data.duration_seconds # None /\ data.duration_seconds[1] < 1
                  \/ /\ data.start_time # None /\ data.end_time # None
                     /\ data.start_time[1] >= data.end_time[1]
                  \/ /\ data.end_time # None
                     /\ data.end_time[1] > req[r].at + MaxFutureMinutes * 60 * res )
             => req[r].out = "400" /\ req[r].entry = 0
    /\ \A r \in Requests :
          ( /\ BookDone(r)
            /\ \/ req[r].dur < 1
               \/ req[r].loaded # None /\ req[r].end_time <= req[r].loaded[1].started_at[1] )
          => req[r].out # "201" /\ req[r].entry = 0

\* A manual entry with a start_time has just been stored next to a booked one.
C29_Witness ==
    \E r \in Requests, i \in 1..Len(time_entries) :
        /\ time_entries[i].booked_from_tracker
        /\ ManualDone(r) /\ req[r].out = "201" /\ req[r].entry # 0
        /\ time_entries[req[r].entry].start_time # None

\* A request that creates a manual entry holds no tracker session; it has been
\* refused if duration_seconds or end_time was not sent, and the entry it has
\* stored is as the caller sent it.
ManualState ==
    \A r \in Requests :
        req[r].kind = "manual"
        => /\ req[r].t = None /\ req[r].loaded = None /\ ~req[r].wrote
           /\ ( /\ req[r].pc = "done"
                /\ \/ req[r].data[1].duration_seconds = None
                   \/ req[r].data[1].end_time = None )
              => req[r].out = "400" /\ req[r].entry = 0
           /\ req[r].entry # 0
              => /\ Some(time_entries[req[r].entry].duration_seconds)
                      = req[r].data[1].duration_seconds
                 /\ Some(time_entries[req[r].entry].end_time) = req[r].data[1].end_time
                 /\ ~time_entries[req[r].entry].booked_from_tracker
                 /\ time_entries[req[r].entry].user = req[r].user

\* A step of a request that creates a manual entry leaves the stored sessions as
\* they are.
ManualStep ==
    \A r \in Requests :
        (req[r].kind \in {"idle", "manual"} /\ req'[r].kind = "manual" /\ req'[r].pc # req[r].pc)
        => tracker_sessions' = tracker_sessions

\* C30: a request that creates a manual entry loads no tracker session and no
\* step of it changes a stored session; it is refused when duration_seconds or
\* end_time is not sent, and the entry it stores has the duration_seconds and
\* the end_time the caller sent and is not marked as booked.
C30_ManualBypassesTracker == []ManualState /\ [][ManualStep]_vars

\* A manual entry was stored for a user whose tracker session is running, and a
\* manual entry sent without duration_seconds was refused.
C30_Witness ==
    /\ \E r \in Requests :
          /\ ManualDone(r) /\ req[r].out = "201" /\ req[r].entry # 0
          /\ \E d \in Stored(req[r].user) : d.is_running
    /\ \E r \in Requests :
          ManualDone(r) /\ req[r].out = "400" /\ req[r].data[1].duration_seconds = None

\* The messages of the tracker actions that changed the session.
Changing == {"Tracker started", "Tracker paused", "Tracker resumed", "Tracker reset"}

\* Once a transition has returned its result, with no other request about since
\* it arrived, the stored session is the session after the transition.
Written ==
    \A r \in Requests :
        (DoneAction(r) /\ req[r].out \in Changing)
        => /\ req[r].wrote
           /\ ~req[r].overlap => Stored(req[r].user) = {req[r].t[1].doc}

\* The step that returns the result of a transition leaves every field the
\* transition assigned in the stored session.
WrittenAtReturn ==
    \A r \in Requests :
        ( /\ req[r].kind = "action" /\ req[r].pc # "done"
          /\ req'[r].pc = "done" /\ req'[r].out \in Changing )
        => \A d \in SessionsOf(tracker_sessions', req[r].user) :
              \A f \in req[r].t[1].changed : d[f] = req[r].t[1].doc[f]

\* The step in which a status request loads the session gives it the session
\* that is stored at that moment.
ReadsStore ==
    \A s \in Requests :
        (req[s].kind = "status" /\ req[s].pc = "get" /\ req'[s].pc = "act")
        => /\ req'[s].loaded # None
           /\ req'[s].loaded[1] \in Stored(req[s].user)
           /\ req'[s].t = Some(Loaded(req'[s].loaded[1]))

\* C31: a transition is written before its result is returned: when a start,
\* pause, resume or reset returns its result the store holds what it assigned
\* (the whole session after the transition when no other request was about),
\* and a status request that loads the session afterwards loads what is stored.
C31_WrittenBeforeReturned == []Written /\ [][WrittenAtReturn /\ ReadsStore]_vars

\* A status request that arrived after a pause had returned its result has
\* loaded the session as the pause left it.
C31_Witness ==
    \E r, s \in Requests :
        /\ DoneAction(r) /\ req[r].out = "Tracker paused"
        /\ req[s].kind = "status" /\ req[s].pc = "done" /\ ~req[s].overlap
        /\ req[s].loaded = Some(req[r].t[1].doc)
        /\ req[s].loaded[1].paused_at # None /\ ~req[s].loaded[1].is_running

\* C32: whatever the interleaving of the requests of a user, the stored session
\* never has paused_at set while it is running, and never has a paused_at
\* earlier than its started_at.
C32_NoInvalidCombination ==
    \A u \in Users : \A d \in Stored(u) :
        /\ ~(d.paused_at # None /\ d.is_running)
        /\ ~(d.paused_at # None /\ d.started_at # None /\ d.paused_at[1] < d.started_at[1])

\* C33: with only start, pause and resume requests, in any interleaving, the
\* elapsed time of the stored session never exceeds the time the stored session
\* has run.
C33_NoOverCount ==
    \A u \in Users :
        \A d \in Stored(u) : get_current_elapsed_seconds(d, now) * res <= ran[u]

\* C34: start and resume are the same transition: a start (a resume) that was
\* served alone leaves the stored session as a resume (a start) of the loaded
\* session at the same instant would, and is a no-op exactly when the other is;
\* on a session that is not running it sets started_at to the instant it read,
\* clears paused_at, sets is_running and leaves accumulated_seconds as it was.
C34_StartIsResume ==
    \A r \in Requests :
        ( /\ req[r].kind = "action" /\ req[r].action \in {"start", "resume"}
          /\ req[r].pc = "done" /\ ~req[r].overlap /\ req[r].loaded # None )
        => LET d0 == req[r].loaded[1]
               other == IF req[r].action = "start" THEN "resume" ELSE "start"
               p == TrackerPost(other, Loaded(d0), req[r].at)
           IN /\ Stored(req[r].user) = {SerialPost(d0, other, req[r].at)}
              /\ (req[r].out = "Tracker already running") <=> ~p.save
              /\ ~d0.is_running
                 => \A d \in Stored(req[r].user) :
                       /\ d.started_at = Some(req[r].at)
                       /\ d.paused_at = None
                       /\ d.is_running
                       /\ d.accumulated_seconds = d0.accumulated_seconds

\* A start was served on a paused session with banked time, after the instant
\* of its pause.
C34_Witness ==
    \E r \in Requests :
        /\ req[r].kind = "action" /\ req[r].action = "start"
        /\ req[r].pc = "done" /\ req[r].out = "Tracker started"
        /\ req[r].loaded # None
        /\ ~req[r].loaded[1].is_running
        /\ req[r].loaded[1].accumulated_seconds >= 1
        /\ req[r].loaded[1].paused_at # None
        /\ req[r].at > req[r].loaded[1].paused_at[1]

\* C35: whenever a pause request has answered 'Tracker paused', the session it
\* saved is not running and has paused_at set, and the session it had loaded
\* passed the guard of TrackerSession.pause (running, paused_at unset) as it
\* passed the guard of the view (running).
C35_PauseStops ==
    \A r \in Requests :
        (DoneAction(r) /\ req[r].action = "pause" /\ req[r].out = "Tracker paused")
        => /\ ~req[r].t[1].doc.is_running
           /\ req[r].t[1].doc.paused_at # None
           /\ req[r].loaded # None
              => (req[r].loaded[1].is_running
                    <=> (req[r].loaded[1].is_running /\ req[r].loaded[1].paused_at = None))

\* C36: on a session whose started_at is unset, the elapsed-time query returns
\* accumulated_seconds, and pause, when the session is running with paused_at
\* unset, marks it not running, sets paused_at to the instant it read and leaves
\* accumulated_seconds as it was.
C36_UnsetStartTolerated ==
    \A r \in Requests :
        (req[r].loaded # None /\ req[r].loaded[1].started_at = None)
        => LET d0 == req[r].loaded[1]
           IN /\ (req[r].kind = "status" /\ req[r].pc = "done")
                 => req[r].out = "200" /\ req[r].dur = d0.accumulated_seconds
              /\ ( /\ req[r].kind = "action" /\ req[r].action = "pause"
                   /\ req[r].pc \in {"save", "done"}
                   /\ d0.is_running /\ d0.paused_at = None )
                 => /\ req[r].t[1].doc.accumulated_seconds = d0.accumulated_seconds
                    /\ ~req[r].t[1].doc.is_running
                    /\ req[r].t[1].doc.paused_at = Some(req[r].at)
                    /\ req[r].t[1].doc.started_at = None

\* A pause has acted on a running session with banked time and no started_at,
\* at an instant after the clock's origin.
C36_Witness ==
    \E r \in Requests :
        /\ req[r].kind = "action" /\ req[r].action = "pause" /\ req[r].pc = "save"
        /\ req[r].loaded # None /\ req[r].loaded[1].started_at = None
        /\ req[r].loaded[1].is_running /\ req[r].loaded[1].paused_at = None
        /\ req[r].loaded[1].accumulated_seconds >= 1
        /\ req[r].at >= 1

\* No step removes a stored session, changes its id or its user, or stores a
\* second session for its user.
SessionKept ==
    \A d \in tracker_sessions :
        /\ \E e \in tracker_sessions' : e.id = d.id /\ e.user = d.user
        /\ Cardinality(SessionsOf(tracker_sessions', d.user)) = 1

\* C37: once created, the session of a user is never deleted or replaced by a
\* tracker request or a booking: every step keeps each stored session, with its
\* id and its user, as the only session of that user (started_at, paused_at,
\* accumulated_seconds and is_running are the fields that may change).
C37_SessionNeverReplaced == [][SessionKept]_vars

\* A booking has reset the session it loaded, and that same session, created by
\* an earlier request, is stored with the reset values.
C37_Witness ==
    \E r \in Requests :
        /\ BookDone(r) /\ req[r].out = "201" /\ req[r].wrote
        /\ \E d \in Stored(req[r].user) :
              /\ d.id = req[r].loaded[1].id
              /\ d # req[r].loaded[1]
              /\ ~d.is_running /\ d.accumulated_seconds = 0

====
